---------------------------- MODULE Spec2Model ----------------------------
(***************************************************************************)
(* Model of kernel/arch/x86_64/smp.c: ACPI discovery of the processors     *)
(* (RSDP scan, checksum gate, RSDT/MADT walk), the serialized INIT/SIPI    *)
(* bring-up of the application processors through the trampoline page at   *)
(* physical 0x1000, ap_main on each AP, and the broadcast IPI services.    *)
(*                                                                         *)
(* The BSP runs smp_initialize as a program counter `pc`; every AP is a    *)
(* hardware core with its own position.  The local APIC delivers an IPI    *)
(* asynchronously after the write of ICR-low.                              *)
(***************************************************************************)
EXTENDS Integers, Sequences, FiniteSets, TLC

(***************************************************************************)
(* Bounds of the model.                                                    *)
(***************************************************************************)
\* Hardware cores of the bring-up specification: LAPIC ids 0..MaxCores-1.
MaxCores == 3
\* Free physical frames the frame allocator can hand out.
MaxFrames == 2
\* IPI service calls made after smp_initialize has returned.
MaxCalls == 1
\* Reads of ICR-low that still show the delivery-status bit, per send.
MaxPolls == 1
\* Length of the exhaustively enumerated MADT entry lists.
MaxEntries == 3
\* Enabled entries beyond the capacity in the long MADT tables.
MaxExtra == 8
\* RSDP candidates placed in the scanned memory.
MaxRsdps == 2

(***************************************************************************)
(* Program constants.                                                      *)
(***************************************************************************)
MAX_CPUS == 32
LegacyScan == 917504          \* 0xE0000
LegacyScanTop == 1048576      \* 0x100000
ScanSpan == 1048576           \* 0x100000
ScanStride == 16
TagHeader == 8
RsdpSize == 20
RsdtHeader == 36
TRAMP == 4096                 \* 0x1000
PageSize == 4096              \* 0x1000
FrameShift == 12
ICR_HI == 784                 \* 0x310
ICR_LO == 768                 \* 0x300
SvrEnable == 295              \* 0x127
DeliveryBit == 12
IdShift == 24
CMD_INIT == 17664             \* 0x4500
CMD_SIPI == 17921             \* 0x4601
InitDelay == 5000
VEC_WAKEUP == 126             \* 0x7E
VEC_TICK == 123               \* 0x7b
VEC_TLB == 124                \* 0x7C
ShorthandShift == 18
AllExcludingSelf == 3
VENDOR_INTEL == 1970169159    \* 0x756e6547
VENDOR_AMD == 1752462657      \* 0x68747541
BrandLeaf == 4                \* 0x80000004, as an offset from 0x80000000

\* processor_count before discovery (defined outside smp.c).
ProcessorCountInit == 1
\* Offset of madt->entries in the table (acpi.h).
MadtEntries == 44

(***************************************************************************)
(* Arithmetic on machine words.                                            *)
(***************************************************************************)
RECURSIVE Pow2(_)
Pow2(n) == IF n = 0 THEN 1 ELSE 2 * Pow2(n - 1)

Bit(x, n) == (x \div Pow2(n)) % 2

RECURSIVE BitOrFrom(_, _, _)
BitOrFrom(a, b, n) ==
    IF n > 30 THEN 0
    ELSE (IF Bit(a, n) = 1 \/ Bit(b, n) = 1 THEN Pow2(n) ELSE 0)
         + BitOrFrom(a, b, n + 1)

\* a | b on values below 2^31
BitOr(a, b) == BitOrFrom(a, b, 0)

Shl(x, n) == x * Pow2(n)

Min(S) == CHOOSE x \in S : \A y \in S : x <= y

RECURSIVE SumBytes(_)
SumBytes(s) == IF s = <<>> THEN 0 ELSE Head(s) + SumBytes(Tail(s))

RECURSIVE Flatten(_)
Flatten(ss) == IF ss = <<>> THEN <<>> ELSE Head(ss) \o Flatten(Tail(ss))

(***************************************************************************)
(* Firmware data: physical memory holding RSDP candidates, the RSDT and    *)
(* its tables.  Memory is a set of placed byte strings; every byte outside *)
(* a placement reads as 0.                                                 *)
(***************************************************************************)
\* "RSD PTR " : the scan compares the first seven bytes (_scan[0] .. _scan[6])
RsdpSig == <<82, 83, 68, 32, 80, 84, 82, 32>>
SigCompared == 7
\* "APIC"
ApicSig == <<65, 80, 73, 67>>
\* "FACP"
FacpSig == <<70, 65, 67, 80>>

MemByte(m, a) ==
    IF \E p \in m : a >= p.addr /\ a < p.addr + Len(p.bytes)
    THEN LET p == CHOOSE q \in m : a >= q.addr /\ a < q.addr + Len(q.bytes)
         IN  p.bytes[a - p.addr + 1]
    ELSE 0

\* the condition of the if at lines 237-243
SigMatch(m, s) ==
    \A k \in 0 .. (SigCompared - 1) : MemByte(m, s + k) = RsdpSig[k + 1]

\* Addresses at which the loop of lines 235-247 finds the signature.  A byte
\* outside a placement is 0 and never equals 'R', so only the addresses
\* inside a placement can match.
ScanHits(m, base, top) ==
    { s \in UNION { p.addr .. (p.addr + Len(p.bytes) - 1) : p \in m } :
        /\ s >= base
        /\ s < top
        /\ (s - base) % ScanStride = 0
        /\ SigMatch(m, s) }

\* Value of `scan` when the loop of lines 235-247 runs to its end.
ScanEnd(base, top) ==
    IF base >= top THEN base
    ELSE base + ScanStride * ((top - base + ScanStride - 1) \div ScanStride)

\* uint8_t check: sum of the sizeof(struct rsdp_descriptor) bytes at scan
RsdpCheck(m, s) ==
    SumBytes([k \in 1 .. RsdpSize |-> MemByte(m, s + k - 1)]) % 256

HexVal(c) ==
    IF c >= 48 /\ c <= 57 THEN c - 48
    ELSE IF c >= 97 /\ c <= 102 THEN c - 97 + 10
    ELSE IF c >= 65 /\ c <= 70 THEN c - 65 + 10
    ELSE 0

RECURSIVE xtoiFrom(_, _)
xtoiFrom(c, out) ==
    IF c = <<>> THEN out ELSE xtoiFrom(Tail(c), out * 16 + HexVal(Head(c)))

\* xtoi: an optional "0x", then every character shifts in one hex digit
\* (a character that is no hex digit shifts in 0)
xtoi(c) ==
    IF Len(c) >= 2 /\ c[1] = 48 /\ c[2] = 120
    THEN xtoiFrom(SubSeq(c, 3, Len(c)), 0)
    ELSE xtoiFrom(c, 0)

\* number of pointers of the RSDT: (rsdt->header.length - 36) / 4
RsdtCount(r) == (r.length - RsdtHeader) \div 4

\* entry[k] for the entry at table offset off
EntryByte(t, off, k) ==
    IF off + k - MadtEntries + 1 \in 1 .. Len(t.bytes)
    THEN t.bytes[off + k - MadtEntries + 1]
    ELSE 0

IsMadt(t) == \A k \in 1 .. 4 : t.sig[k] = ApicSig[k]

(***************************************************************************)
(* State.                                                                  *)
(***************************************************************************)
VARIABLES
    \* inputs, fixed at boot
    args,               \* keys present on the kernel command line
    acpi_value,         \* args_value("acpi")
    boot,               \* mboot_is_2, the v2 tags 14 and 15, mboot_struct->config_table
    mem,                \* physical memory scanned for the RSDP
    rsdt,               \* the RSDT the RSDP points at, its pointers resolved
    trampOrig,          \* page 0x1000 before smp_initialize ran
    \* smp_initialize on the BSP
    pc, scan, scan_top, good, check, cores, lapic_base, ri, entry, i, tmp_space,
    \* globals
    processor_local_data, processor_count, lapic_final,
    _ap_stack_base, _ap_startup_flag, _ap_current,
    \* memory and allocators
    tramp,              \* the page at physical 0x1000
    kidles,             \* number of idle tasks spawned
    frameData,          \* contents of the scratch frames
    framesUsed,         \* frames handed out by mmu_allocate_a_frame
    heap,               \* number of valloc'ed stacks
    \* the BSP's local APIC and lapic_send_ipi
    ipc,                \* position inside lapic_send_ipi
    ipiArg,             \* its arguments (i, val)
    icr,                \* ICR-high, ICR-low, delivery pending
    polls,              \* reads of ICR-low in this send that showed it busy
    \* the application processors
    ap,
    \* history
    log,                \* lines printed
    mmio,               \* LAPIC writes of the BSP, in order
    sent,               \* IPIs delivered, in order
    rsdtRead,           \* the RSDT has been dereferenced
    madtTop,            \* highest offset into the MADT that the entry walk has read
    published,          \* per AP index, what the BSP published before its SIPI
    acked,              \* AP indices whose acknowledgement the BSP has observed
    svc,                \* the IPI service call in progress or last finished
    calls

inputs == <<args, acpi_value, boot, mem, rsdt, trampOrig>>
locals == <<scan, scan_top, good, check, cores, lapic_base, ri, entry, i, tmp_space>>
globals == <<processor_local_data, processor_count, lapic_final,
             _ap_stack_base, _ap_startup_flag, _ap_current>>
memory == <<tramp, kidles, frameData, framesUsed, heap>>
lapic == <<ipc, ipiArg, icr, polls>>
history == <<log, mmio, sent, rsdtRead, madtTop, published, acked, svc, calls>>
vars == <<inputs, pc, locals, globals, memory, lapic, ap, history>>

(***************************************************************************)
(* Cores.  The BSP has LAPIC id BspId and descriptor index 0; the other    *)
(* hardware cores are identified by their LAPIC ids.                       *)
(***************************************************************************)
BspId == 0
ApIds == 1 .. (MaxCores - 1)
Frames == 2 .. (MaxFrames + 1)

Descriptor0 ==
    [cpu_id |-> 0, lapic_id |-> 0, current_pml |-> "null",
     kernel_idle_task |-> 0, current_process |-> 0,
     cpu_manufacturer |-> "", cpu_model |-> 0, cpu_family |-> 0,
     cpu_model_name |-> ""]

\* processor_local_data[k].  The array is kept as its written prefix: the
\* descriptors beyond the domain are still zero-filled.
PldAt(pld, k) == IF k \in DOMAIN pld THEN pld[k] ELSE Descriptor0

\* processor_local_data[k] = rec
PldSet(pld, k, rec) ==
    LET top == IF \A j \in DOMAIN pld : j <= k THEN k
               ELSE CHOOSE j \in DOMAIN pld : \A l \in DOMAIN pld : l <= j
    IN  [j \in 0 .. top |-> IF j = k THEN rec ELSE PldAt(pld, j)]

\* What cpuid answers on the core with LAPIC id h: leaf 0 ebx, leaf 1 eax,
\* leaf 0x80000000 eax (as an offset from 0x80000000) and the brand string.
Cpuid(h) ==
    [vendor |-> IF h % 3 = 0 THEN VENDOR_INTEL
                ELSE IF h % 3 = 1 THEN VENDOR_AMD ELSE 0,
     eax1   |-> 198313 + 16 * h,
     maxext |-> IF h % 2 = 0 THEN BrandLeaf ELSE BrandLeaf - 1,
     brand  |-> IF h % 3 = 0 THEN "Intel brand" ELSE "Other brand"]

(***************************************************************************)
(* load_processor_info, run by the core with LAPIC id h whose core base    *)
(* is descriptor `base`.  The brand string goes to                         *)
(* processor_local_data[this_core->cpu_id].                                *)
(***************************************************************************)
load_processor_info(pld, h, base) ==
    LET c == Cpuid(h)
        known == c.vendor = VENDOR_INTEL \/ c.vendor = VENDOR_AMD
        p1 == PldSet(pld, base,
                [PldAt(pld, base) EXCEPT
                   !.cpu_manufacturer =
                       IF c.vendor = VENDOR_INTEL THEN "Intel"
                       ELSE IF c.vendor = VENDOR_AMD THEN "AMD" ELSE "Unknown",
                   !.cpu_model = IF known THEN (c.eax1 \div 16) % 16 ELSE @,
                   !.cpu_family = IF known THEN (c.eax1 \div 256) % 16 ELSE @])
        id == PldAt(p1, base).cpu_id
    IN  PldSet(p1, id,
               [PldAt(p1, id) EXCEPT
                  !.cpu_model_name =
                      IF c.maxext >= BrandLeaf THEN c.brand ELSE "(unknown)"])

(***************************************************************************)
(* smp_initialize, lines 210-301: locating the tables.                     *)
(***************************************************************************)
Return == pc' = "ret"

\* a line printed by printf or dprintf: the format and its %d argument
Line(fmt, arg) == [fmt |-> fmt, arg |-> arg]

\* lines 212-233
SelectScanBase ==
    /\ pc = "select"
    /\ IF boot.mboot_is_2
       THEN LET tag == IF boot.tag14 # 0 THEN boot.tag14 ELSE boot.tag15
            IN  /\ scan' = tag + TagHeader
                /\ scan_top' = tag + TagHeader + ScanSpan
       ELSE IF boot.config_table # 0
       THEN /\ scan' = boot.config_table
            /\ scan_top' = boot.config_table + ScanSpan
       ELSE IF "acpi" \in args
       THEN /\ scan' = xtoi(acpi_value)
            /\ scan_top' = xtoi(acpi_value) + ScanSpan
       ELSE /\ scan' = LegacyScan
            /\ scan_top' = LegacyScanTop
    /\ pc' = "scan"
    /\ UNCHANGED <<inputs, good, check, cores, lapic_base, ri, entry,
                   i, tmp_space, globals, memory, lapic, ap, history>>

\* lines 235-247: the first 16-byte step from scan that carries "RSD PTR"
LocateRsdp ==
    /\ pc = "scan"
    /\ LET hits == ScanHits(mem, scan, scan_top)
       IN  IF hits = {}
           THEN /\ scan' = ScanEnd(scan, scan_top)
                /\ good' = 0
           ELSE /\ scan' = Min(hits)
                /\ good' = 1
    /\ pc' = "info"
    /\ UNCHANGED <<inputs, scan_top, check, cores, lapic_base, ri,
                   entry, i, tmp_space, globals, memory, lapic, ap, history>>

\* line 249
BspProcessorInfo ==
    /\ pc = "info"
    /\ processor_local_data' = load_processor_info(processor_local_data, BspId, 0)
    /\ pc' = "found"
    /\ UNCHANGED <<inputs, locals, processor_count, lapic_final,
                   _ap_stack_base, _ap_startup_flag, _ap_current, memory, lapic,
                   ap, history>>

\* lines 251-254
RsdpGate ==
    /\ pc = "found"
    /\ IF good = 0
       THEN /\ log' = Append(log, Line("smp: No RSD PTR found", 0))
            /\ Return
       ELSE /\ log' = log
            /\ pc' = "checksum"
    /\ UNCHANGED <<inputs, locals, globals, memory, lapic, ap,
                   mmio, sent, rsdtRead, madtTop, published, acked, svc, calls>>

\* the override is not honoured
ChecksumRejectedAlways(c) == c # 0

\* line 262
ChecksumRejected(c) == c # 0 /\ "noacpichecksum" \notin args

\* lines 256-265
ChecksumGate ==
    /\ pc = "checksum"
    /\ check' = RsdpCheck(mem, scan)
    /\ IF ChecksumRejected(check')
       THEN /\ log' = Append(log, Line("smp: Bad checksum on RSDP (add 'noacpichecksum' to ignore this)", 0))
            /\ Return
       ELSE /\ log' = log
            /\ pc' = "nosmp"
    /\ UNCHANGED <<inputs, scan, scan_top, good, cores, lapic_base,
                   ri, entry, i, tmp_space, globals, memory, lapic, ap,
                   mmio, sent, rsdtRead, madtTop, published, acked, svc, calls>>

\* the switch is never looked at
NosmpIgnored == FALSE

\* line 269: args_present("nosmp")
NosmpSet == "nosmp" \in args

\* line 269
NosmpGate ==
    /\ pc = "nosmp"
    /\ IF NosmpSet THEN Return ELSE pc' = "rsdt"
    /\ UNCHANGED <<inputs, locals, globals, memory, lapic, ap, history>>

\* lines 271-274
ReadRsdt ==
    /\ pc = "rsdt"
    /\ rsdtRead' = TRUE
    /\ cores' = 0
    /\ lapic_base' = 0
    /\ ri' = 0
    /\ pc' = "tables"
    /\ UNCHANGED <<inputs, scan, scan_top, good, check, entry, i,
                   tmp_space, globals, memory, lapic, ap,
                   log, mmio, sent, madtTop, published, acked, svc, calls>>

\* lines 275-281: the test of the loop over rsdt->pointers and the signature test
RsdtNext ==
    /\ pc = "tables"
    /\ IF ri < RsdtCount(rsdt)
       THEN IF IsMadt(rsdt.pointers[ri + 1])
            THEN /\ lapic_base' = rsdt.pointers[ri + 1].lapic_addr
                 /\ entry' = MadtEntries
                 /\ ri' = ri
                 /\ pc' = "walk"
            ELSE /\ ri' = ri + 1
                 /\ pc' = "tables"
                 /\ UNCHANGED <<lapic_base, entry>>
       ELSE /\ pc' = "count"
            /\ UNCHANGED <<lapic_base, entry, ri>>
    /\ UNCHANGED <<inputs, scan, scan_top, good, check, cores, i,
                   tmp_space, globals, memory, lapic, ap, history>>

\* any nonzero flags byte counts as enabled
EntryEnabledAnyFlag(table, off) ==
    /\ EntryByte(table, off, 0) = 0
    /\ EntryByte(table, off, 4) # 0

\* lines 282-284: case 0 with entry[4] & 0x01
EntryEnabled(table, off) ==
    /\ EntryByte(table, off, 0) = 0
    /\ EntryByte(table, off, 4) % 2 = 1

\* line 285
AtCapacity(n) == n = MAX_CPUS

\* lines 282-296: the highest offset one pass reads: entry[0] in the switch
\* and entry[1] in the increment, and for type 0 entry[4] (entry[3] lies below)
EntryReach(table, off) ==
    off + (IF EntryByte(table, off, 0) = 0 THEN 4 ELSE 1)

\* lines 281-296: one pass of the loop over the MADT entries
MadtEntry ==
    /\ pc = "walk"
    /\ LET table == rsdt.pointers[ri + 1]
       IN  IF entry < table.length
           THEN /\ madtTop' = IF EntryReach(table, entry) > madtTop
                              THEN EntryReach(table, entry) ELSE madtTop
                /\ IF EntryEnabled(table, entry)
                   THEN IF AtCapacity(cores)
                        THEN /\ log' = Append(log, Line("smp: too many cores", 0))
                             /\ pc' = "count"
                             /\ UNCHANGED <<cores, entry, ri, processor_local_data>>
                        ELSE /\ processor_local_data' =
                                  PldSet(processor_local_data, cores,
                                    [PldAt(processor_local_data, cores) EXCEPT
                                       !.cpu_id = cores,
                                       !.lapic_id = EntryByte(table, entry, 3)])
                             /\ cores' = cores + 1
                             /\ entry' = entry + EntryByte(table, entry, 1)
                             /\ UNCHANGED <<pc, ri, log>>
                   ELSE /\ entry' = entry + EntryByte(table, entry, 1)
                        /\ UNCHANGED <<pc, ri, log, cores, processor_local_data>>
           ELSE /\ ri' = ri + 1
                /\ pc' = "tables"
                /\ UNCHANGED <<log, cores, entry, processor_local_data, madtTop>>
    /\ UNCHANGED <<inputs, scan, scan_top, good, check, lapic_base, i,
                   tmp_space, processor_count, lapic_final, _ap_stack_base,
                   _ap_startup_flag, _ap_current, memory, lapic, ap,
                   mmio, sent, rsdtRead, published, acked, svc, calls>>

\* lines 300-301
SetProcessorCount ==
    /\ pc = "count"
    /\ processor_count' = cores
    /\ pc' = "lapic"
    /\ UNCHANGED <<inputs, locals, processor_local_data, lapic_final,
                   _ap_stack_base, _ap_startup_flag, _ap_current, memory, lapic,
                   ap, history>>

(***************************************************************************)
(* Collaborators of smp_initialize (not part of smp.c).                    *)
(***************************************************************************)
\* mmu_map_mmio_region: a nonzero kernel virtual address for the region
MmioWindow == 1048576
mmu_map_mmio_region(paddr, size) == MmioWindow + paddr \div size

\* gdt_copy_to_trampoline(ap, ...): the GDT pointer of AP index `a`
gdt_copy_to_trampoline(a) == a + 1

\* valloc(KERNEL_STACK_SIZE) + KERNEL_STACK_SIZE for the n-th allocation
StackTop(n) == n

\* &init_page_region[0]
InitPageRegion == "init_page_region"

(***************************************************************************)
(* smp_initialize, lines 303-343: mapping the LAPIC and starting the APs.  *)
(***************************************************************************)
\* lines 303-306
MapLapic ==
    /\ pc = "lapic"
    /\ IF lapic_base = 0
       THEN /\ Return
            /\ UNCHANGED lapic_final
       ELSE /\ lapic_final' = mmu_map_mmio_region(lapic_base, PageSize)
            /\ pc' = "cores"
    /\ UNCHANGED <<inputs, locals, processor_local_data, processor_count,
                   _ap_stack_base, _ap_startup_flag, _ap_current, memory, lapic,
                   ap, history>>

\* line 308
CheckCores ==
    /\ pc = "cores"
    /\ IF cores <= 1 THEN Return ELSE pc' = "backup"
    /\ UNCHANGED <<inputs, locals, globals, memory, lapic, ap, history>>

\* lines 311-312
BackupTrampoline ==
    /\ pc = "backup"
    /\ \E f \in Frames \ framesUsed :
          /\ framesUsed' = framesUsed \cup {f}
          /\ tmp_space' = Shl(f, FrameShift)
          /\ frameData' = [frameData EXCEPT ![f] = tramp]
    /\ pc' = "install"
    /\ UNCHANGED <<inputs, scan, scan_top, good, check, cores, lapic_base, ri,
                   entry, i, globals, tramp, kidles, heap, lapic, ap, history>>

\* line 315: the blob covers the code and the GDT pointer slot, not the
\* rest of the page
InstallTrampoline ==
    /\ pc = "install"
    /\ tramp' = [tramp EXCEPT !.code = "bootstrap", !.gdtp = 0]
    /\ i' = 1
    /\ pc' = "loop"
    /\ UNCHANGED <<inputs, scan, scan_top, good, check, cores, lapic_base, ri,
                   entry, tmp_space, globals, kidles, frameData, framesUsed,
                   heap, lapic, ap, history>>

\* the two commands are sent in the wrong order
LoopOrderSipiBeforeInit ==
    <<"clear", "gdt", "stack", "current", "sipi", "delay", "init", "wait">>

\* the SIPI is sent before _ap_current is written
LoopOrderSipiFirst ==
    <<"clear", "gdt", "stack", "init", "delay", "sipi", "current", "wait">>

\* lines 318-336: the order of the steps of one pass of the loop
LoopOrder ==
    <<"clear", "gdt", "stack", "current", "init", "delay", "sipi", "wait">>

Position(order, p) == CHOOSE k \in 1 .. Len(order) : order[k] = p

\* the step that follows step p of a pass
LoopAfter(p) == LoopOrder[Position(LoopOrder, p) + 1]

\* line 317: i < cores
LoopTest ==
    /\ pc = "loop"
    /\ pc' = IF i < cores THEN LoopOrder[1] ELSE "restore"
    /\ UNCHANGED <<inputs, locals, globals, memory, lapic, ap, history>>

\* line 318
ClearFlag ==
    /\ pc = "clear"
    /\ _ap_startup_flag' = 0
    /\ pc' = LoopAfter("clear")
    /\ UNCHANGED <<inputs, locals, processor_local_data, processor_count,
                   lapic_final, _ap_stack_base, _ap_current, memory, lapic, ap,
                   history>>

\* line 321
PatchGdt ==
    /\ pc = "gdt"
    /\ tramp' = [tramp EXCEPT !.gdtp = gdt_copy_to_trampoline(i)]
    /\ pc' = LoopAfter("gdt")
    /\ UNCHANGED <<inputs, locals, globals, kidles, frameData, framesUsed, heap,
                   lapic, ap, history>>

\* line 324
AllocStack ==
    /\ pc = "stack"
    /\ heap' = heap + 1
    /\ _ap_stack_base' = StackTop(heap + 1)
    /\ pc' = LoopAfter("stack")
    /\ UNCHANGED <<inputs, locals, processor_local_data, processor_count,
                   lapic_final, _ap_startup_flag, _ap_current, tramp, kidles,
                   frameData, framesUsed, lapic, ap, history>>

\* line 326
PublishCurrent ==
    /\ pc = "current"
    /\ _ap_current' = i
    /\ pc' = LoopAfter("current")
    /\ UNCHANGED <<inputs, locals, processor_local_data, processor_count,
                   lapic_final, _ap_stack_base, _ap_startup_flag, memory, lapic,
                   ap, history>>

\* a call of lapic_send_ipi(id, val) that returns to position ret
CallSendIpi(id, val, ret) ==
    /\ ipc = "none"
    /\ ipc' = "w310"
    /\ ipiArg' = [i |-> id, val |-> val, ret |-> ret]
    /\ pc' = "ipi"
    /\ UNCHANGED <<icr, polls>>

\* line 329
SendInit ==
    /\ pc = "init"
    /\ CallSendIpi(PldAt(processor_local_data, i).lapic_id, CMD_INIT, LoopAfter("init"))
    /\ UNCHANGED <<inputs, locals, globals, memory, ap, history>>

\* line 330
ShortDelay ==
    /\ pc = "delay"
    /\ sent' = Append(sent, [op |-> "delay", hi |-> 0, lo |-> InitDelay])
    /\ pc' = LoopAfter("delay")
    /\ UNCHANGED <<inputs, locals, globals, memory, lapic, ap,
                   log, mmio, rsdtRead, madtTop, published, acked, svc, calls>>

\* line 333
SendSipi ==
    /\ pc = "sipi"
    /\ CallSendIpi(PldAt(processor_local_data, i).lapic_id, CMD_SIPI, LoopAfter("sipi"))
    /\ UNCHANGED <<inputs, locals, globals, memory, ap, history>>

\* the BSP goes on without looking at the flag
AckSeenAlways == TRUE

\* line 336: the condition that ends the pause loop
AckSeen == _ap_startup_flag # 0

\* line 336: the pause loop is left once the flag reads nonzero
WaitAck ==
    /\ pc = "wait"
    /\ AckSeen
    /\ acked' = acked \cup {i}
    /\ i' = i + 1
    /\ pc' = "loop"
    /\ UNCHANGED <<inputs, scan, scan_top, good, check, cores, lapic_base, ri,
                   entry, tmp_space, globals, memory, lapic, ap,
                   log, mmio, sent, rsdtRead, madtTop, published, svc, calls>>

\* nothing is copied back
SavedPageStale == tramp

\* line 340: the source of the copy back
SavedPage == frameData[tmp_space \div Pow2(FrameShift)]

\* line 340
RestoreTrampoline ==
    /\ pc = "restore"
    /\ tramp' = SavedPage
    /\ pc' = "free"
    /\ UNCHANGED <<inputs, locals, globals, kidles, frameData, framesUsed, heap,
                   lapic, ap, history>>

\* line 341
FreeScratch ==
    /\ pc = "free"
    /\ framesUsed' = framesUsed \ {tmp_space \div Pow2(FrameShift)}
    /\ pc' = "enabled"
    /\ UNCHANGED <<inputs, locals, globals, tramp, kidles, frameData, heap,
                   lapic, ap, history>>

\* line 343
LogEnabled ==
    /\ pc = "enabled"
    /\ log' = Append(log, Line("smp: enabled with %d cores", cores))
    /\ Return
    /\ UNCHANGED <<inputs, locals, globals, memory, lapic, ap,
                   mmio, sent, rsdtRead, madtTop, published, acked, svc, calls>>

(***************************************************************************)
(* The LAPIC gateway, lines 173-186.                                       *)
(***************************************************************************)
\* lapic_write on the BSP's LAPIC page; a write of ICR-low starts a send
lapic_write(addr, value) ==
    /\ mmio' = Append(mmio, [addr |-> addr, value |-> value])
    /\ icr' = IF addr = ICR_HI THEN [icr EXCEPT !.hi = value]
              ELSE IF addr = ICR_LO
              THEN [icr EXCEPT !.lo = value, !.pending = TRUE]
              ELSE icr

\* lapic_read: ICR-low shows the delivery-status bit while the send is pending
lapic_read(addr) ==
    IF addr = ICR_LO
    THEN IF icr.pending THEN BitOr(icr.lo, Pow2(DeliveryBit)) ELSE icr.lo
    ELSE IF addr = ICR_HI THEN icr.hi ELSE 0

\* line 183
LapicWriteHi ==
    /\ pc = "ipi"
    /\ ipc = "w310"
    /\ lapic_write(ICR_HI, Shl(ipiArg.i, IdShift))
    /\ ipc' = "w300"
    /\ UNCHANGED <<inputs, pc, locals, globals, memory, ipiArg, polls, ap,
                   log, sent, rsdtRead, madtTop, published, acked, svc, calls>>

\* line 184; the history keeps what was in place when a SIPI was issued
LapicWriteLo ==
    /\ pc = "ipi"
    /\ ipc = "w300"
    /\ lapic_write(ICR_LO, ipiArg.val)
    /\ ipc' = "poll"
    /\ published' =
         IF ipiArg.val = CMD_SIPI
         THEN Append(published,
                     [idx |-> i, flag |-> _ap_startup_flag,
                      gdtp |-> tramp.gdtp, code |-> tramp.code,
                      stack |-> _ap_stack_base, current |-> _ap_current])
         ELSE published
    /\ UNCHANGED <<inputs, pc, locals, globals, memory, ipiArg, polls, ap,
                   log, sent, rsdtRead, madtTop, acked, svc, calls>>

\* the delivery-status bit is never looked at
DeliveryBusyNever == FALSE

\* line 185: the condition of the do-while, lapic_read(0x300) & (1 << 12)
DeliveryBusy == Bit(lapic_read(ICR_LO), DeliveryBit) = 1

\* line 185: one pass of the do-while
LapicPoll ==
    /\ pc = "ipi"
    /\ ipc = "poll"
    /\ IF DeliveryBusy
       THEN /\ polls < MaxPolls
            /\ polls' = polls + 1
            /\ UNCHANGED <<pc, ipc>>
       ELSE /\ polls' = 0
            /\ ipc' = "none"
            /\ pc' = ipiArg.ret
    /\ UNCHANGED <<inputs, locals, globals, memory, ipiArg, icr, ap,
                   log, mmio, sent, rsdtRead, madtTop, published, acked, svc, calls>>

(***************************************************************************)
(* The hardware: delivery of the pending IPI.  INIT puts the addressed     *)
(* core into wait-for-SIPI; a SIPI starts a waiting core at the page its   *)
(* vector names; the broadcast vectors interrupt running cores.            *)
(***************************************************************************)
ApReset == [pc |-> "wfs", base |-> 0, rsp |-> 0, gdt |-> 0, arch |-> FALSE,
            svr |-> 0, idx |-> 0]

LapicDeliver ==
    /\ icr.pending
    /\ icr' = [icr EXCEPT !.pending = FALSE]
    /\ sent' = Append(sent, [op |-> "ipi", hi |-> icr.hi, lo |-> icr.lo])
    /\ LET mode == (icr.lo \div 256) % 8
           shorthand == (icr.lo \div Pow2(ShorthandShift)) % 4
           target == icr.hi \div Pow2(IdShift)
       IN  IF shorthand = 0 /\ mode = 5
           THEN IF target = BspId
                THEN /\ pc' = "reset"
                     /\ ap' = ap
                ELSE /\ pc' = pc
                     /\ ap' = [h \in ApIds |->
                                 IF h = target THEN ApReset ELSE ap[h]]
           ELSE IF shorthand = 0 /\ mode = 6
           THEN /\ pc' = pc
                /\ ap' = [h \in ApIds |->
                            IF h = target /\ ap[h].pc = "wfs"
                            THEN [ap[h] EXCEPT
                                    !.pc = IF (icr.lo % 256) * PageSize = TRAMP
                                           THEN "tramp" ELSE "crashed",
                                    !.idx = i]
                            ELSE ap[h]]
           ELSE /\ pc' = pc
                /\ ap' = ap
    /\ UNCHANGED <<inputs, locals, globals, memory, ipc, ipiArg, polls,
                   log, mmio, rsdtRead, madtTop, published, acked, svc, calls>>

(***************************************************************************)
(* An application processor: the trampoline (lines 19-74) and ap_main      *)
(* (lines 110-140).                                                        *)
(***************************************************************************)
\* the flag is written first, before _ap_current is read
ApOrderFlagFirst ==
    <<"flag", "main", "check", "arch", "svr", "pml", "kidle", "curproc",
      "info", "switch", "sched">>

\* the flag is written before load_processor_info has run
ApOrderFlagEarly ==
    <<"main", "check", "arch", "svr", "pml", "kidle", "curproc", "flag",
      "info", "switch", "sched">>

\* lines 110-140: the order of the steps of ap_main
ApOrder ==
    <<"main", "check", "arch", "svr", "pml", "kidle", "curproc", "info",
      "flag", "switch", "sched">>

ApAfter(p) == ApOrder[Position(ApOrder, p) + 1]

ApStep(h, from) ==
    /\ ap[h].pc = from
    /\ ap' = [ap EXCEPT ![h].pc = ApAfter(from)]

\* lines 24-49: real mode to long mode from the page at 0x1000, lgdt of
\* the patched pointer, far jump to ap_premain
ApTrampoline(h) ==
    /\ ap[h].pc = "tramp"
    /\ ap' = [ap EXCEPT ![h].pc = IF tramp.code = "bootstrap"
                                  THEN "premain" ELSE "crashed",
                        ![h].gdt = tramp.gdtp]
    /\ UNCHANGED <<inputs, pc, locals, globals, memory, lapic, history>>

\* lines 59-68: segments, task register, rsp from _ap_stack_base, call ap_main
ApPremain(h) ==
    /\ ap[h].pc = "premain"
    /\ ap' = [ap EXCEPT ![h].pc = ApOrder[1], ![h].rsp = _ap_stack_base]
    /\ UNCHANGED <<inputs, pc, locals, globals, memory, lapic, history>>

\* line 111
ApSetCoreBase(h) ==
    /\ ap[h].pc = "main"
    /\ ap' = [ap EXCEPT ![h].pc = ApAfter("main"), ![h].base = _ap_current]
    /\ UNCHANGED <<inputs, pc, locals, globals, memory, lapic, history>>

\* lines 113-117
ApCheckLapicId(h) ==
    /\ ApStep(h, "check")
    /\ log' = IF PldAt(processor_local_data, ap[h].base).lapic_id # h
              THEN Append(log, Line("smp: lapic id does not match", 0))
              ELSE log
    /\ UNCHANGED <<inputs, pc, locals, globals, memory, lapic,
                   mmio, sent, rsdtRead, madtTop, published, acked, svc, calls>>

\* lines 120-122: idt_ap_install, fpu_initialize, pat_initialize
ApArchInit(h) ==
    /\ ap[h].pc = "arch"
    /\ ap' = [ap EXCEPT ![h].pc = ApAfter("arch"), ![h].arch = TRUE]
    /\ UNCHANGED <<inputs, pc, locals, globals, memory, lapic, history>>

\* line 125: the AP's own LAPIC page
ApSpurious(h) ==
    /\ ap[h].pc = "svr"
    /\ ap' = [ap EXCEPT ![h].pc = ApAfter("svr"), ![h].svr = SvrEnable]
    /\ UNCHANGED <<inputs, pc, locals, globals, memory, lapic, history>>

\* line 128
ApSetPml(h) ==
    /\ ApStep(h, "pml")
    /\ processor_local_data' =
         PldSet(processor_local_data, ap[h].base,
                [PldAt(processor_local_data, ap[h].base) EXCEPT
                   !.current_pml = InitPageRegion])
    /\ UNCHANGED <<inputs, pc, locals, processor_count, lapic_final,
                   _ap_stack_base, _ap_startup_flag, _ap_current, memory, lapic,
                   history>>

\* line 131
ApSpawnKidle(h) ==
    /\ ApStep(h, "kidle")
    /\ kidles' = kidles + 1
    /\ processor_local_data' =
         PldSet(processor_local_data, ap[h].base,
                [PldAt(processor_local_data, ap[h].base) EXCEPT
                   !.kernel_idle_task = kidles + 1])
    /\ UNCHANGED <<inputs, pc, locals, processor_count, lapic_final,
                   _ap_stack_base, _ap_startup_flag, _ap_current, tramp,
                   frameData, framesUsed, heap, lapic, history>>

\* line 132
ApSetCurrentProcess(h) ==
    /\ ApStep(h, "curproc")
    /\ processor_local_data' =
         PldSet(processor_local_data, ap[h].base,
                [PldAt(processor_local_data, ap[h].base) EXCEPT
                   !.current_process =
                       PldAt(processor_local_data, ap[h].base).kernel_idle_task])
    /\ UNCHANGED <<inputs, pc, locals, processor_count, lapic_final,
                   _ap_stack_base, _ap_startup_flag, _ap_current, memory, lapic,
                   history>>

\* line 134
ApProcessorInfo(h) ==
    /\ ApStep(h, "info")
    /\ processor_local_data' =
         load_processor_info(processor_local_data, h, ap[h].base)
    /\ UNCHANGED <<inputs, pc, locals, processor_count, lapic_final,
                   _ap_stack_base, _ap_startup_flag, _ap_current, memory, lapic,
                   history>>

\* the AP counts itself in when it signals
ApSetFlagCounting(h) ==
    /\ ApStep(h, "flag")
    /\ _ap_startup_flag' = 1
    /\ processor_count' = processor_count + 1
    /\ UNCHANGED <<inputs, pc, locals, processor_local_data, lapic_final,
                   _ap_stack_base, _ap_current, memory, lapic, history>>

\* line 137
ApSetFlag(h) ==
    /\ ApStep(h, "flag")
    /\ _ap_startup_flag' = 1
    /\ UNCHANGED <<inputs, pc, locals, processor_local_data, processor_count,
                   lapic_final, _ap_stack_base, _ap_current, memory, lapic,
                   history>>

\* line 139: switch_next does not return
ApSwitchNext(h) ==
    /\ ApStep(h, "switch")
    /\ UNCHANGED <<inputs, pc, locals, globals, memory, lapic, history>>

(***************************************************************************)
(* IPI services, lines 346-368, called on the BSP once smp_initialize has  *)
(* returned.                                                               *)
(***************************************************************************)
ServiceCommand(vec) == BitOr(vec, Shl(AllExcludingSelf, ShorthandShift))

\* the services stay quiet only when both conditions hold
ServiceIdleBoth == lapic_final = 0 /\ processor_count < 2

\* the guard shared by the three services
ServiceIdle == lapic_final = 0 \/ processor_count < 2

IpiService(name, vec, vaddr) ==
    /\ pc = "ret"
    /\ calls < MaxCalls
    /\ calls' = calls + 1
    /\ svc' = [name |-> name, vaddr |-> vaddr, wmark |-> Len(mmio)]
    /\ IF ServiceIdle
       THEN UNCHANGED <<pc, lapic>>
       ELSE CallSendIpi(0, ServiceCommand(vec), "ret")
    /\ UNCHANGED <<inputs, locals, globals, memory, ap,
                   log, mmio, sent, rsdtRead, madtTop, published, acked>>

\* lines 346-352
arch_wakeup_others == IpiService("wakeup", VEC_WAKEUP, 0)

\* lines 354-357
arch_tick_others == IpiService("tick", VEC_TICK, 0)

\* lines 359-368
Vaddrs == {0, 233492480}
arch_tlb_shootdown == \E vaddr \in Vaddrs : IpiService("tlb", VEC_TLB, vaddr)

(***************************************************************************)
(* Firmware tables and boot handoffs the specifications draw from.         *)
(***************************************************************************)
LapicEntry(id, flags) == [type |-> 0, len |-> 8, id |-> id, flags |-> flags]
OtherEntry(type, len) == [type |-> type, len |-> len, id |-> 0, flags |-> 0]

\* the bytes of an entry: type, length, then for type 0 the processor id,
\* the APIC id and the 32-bit flags
Encode(e) ==
    IF e.type = 0
    THEN <<0, e.len, e.id, e.id, e.flags, 0, 0, 0>>
    ELSE <<e.type, e.len>> \o [k \in 1 .. (e.len - 2) |-> 1]

Madt(addr, ents) ==
    LET bytes == Flatten([k \in 1 .. Len(ents) |-> Encode(ents[k])])
    IN  [sig |-> ApicSig, lapic_addr |-> addr,
         length |-> MadtEntries + Len(bytes), bytes |-> bytes, ents |-> ents]

Facp == [sig |-> FacpSig, lapic_addr |-> 0, length |-> MadtEntries,
         bytes |-> <<>>, ents |-> <<>>]

Rsdt(tables) == [length |-> RsdtHeader + 4 * Len(tables), pointers |-> tables]

LapicPhys == 267255808        \* a LAPIC base the firmware reports

\* RSDP descriptor: signature, checksum, OEM id, revision, RSDT address; the
\* checksum byte is chosen so that the bytes sum to `sum` mod 256
RsdpBytes(sig, sum) ==
    LET rest == <<66, 79, 67, 72, 83, 32, 0, 0, 16, 0, 0>>
        ck == (sum + 256 * 20 - SumBytes(sig) - SumBytes(rest)) % 256
    IN  sig \o <<ck>> \o rest

Rsdp(addr, sum) == [addr |-> addr, bytes |-> RsdpBytes(RsdpSig, sum)]

\* seven matching bytes followed by a byte that is not the eighth of the
\* signature
NearRsdp(addr, sum) ==
    [addr |-> addr, bytes |-> RsdpBytes([RsdpSig EXCEPT ![8] = 88], sum)]

Boot(is2, t14, t15, ct) ==
    [mboot_is_2 |-> is2, tag14 |-> t14, tag15 |-> t15, config_table |-> ct]

LegacyBoot == Boot(FALSE, 0, 0, 0)
TagAddr == 36864              \* where a multiboot2 tag sits

ZeroPage == [code |-> "zero", gdtp |-> 0, tail |-> "zero"]
\* what an earlier boot stage left in the page at 0x1000
MmapPage == [code |-> "mmap", gdtp |-> 77, tail |-> "mmap"]

(***************************************************************************)
(* The state before smp_initialize runs.                                   *)
(***************************************************************************)
InitState(a, av, b, m, r, t) ==
    /\ args = a
    /\ acpi_value = av
    /\ boot = b
    /\ mem = m
    /\ rsdt = r
    /\ trampOrig = t
    /\ pc = "select"
    /\ scan = 0 /\ scan_top = 0 /\ good = 0 /\ check = 0 /\ cores = 0
    /\ lapic_base = 0 /\ ri = 0 /\ entry = 0 /\ i = 0 /\ tmp_space = 0
    /\ processor_local_data = [k \in 0 .. 0 |-> Descriptor0]
    /\ processor_count = ProcessorCountInit
    /\ lapic_final = 0
    /\ _ap_stack_base = 0
    /\ _ap_startup_flag = 0
    /\ _ap_current = 0
    /\ tramp = t
    /\ kidles = 0
    /\ frameData = [f \in Frames |-> ZeroPage]
    /\ framesUsed = {}
    /\ heap = 0
    /\ ipc = "none"
    /\ ipiArg = [i |-> 0, val |-> 0, ret |-> "ret"]
    /\ icr = [hi |-> 0, lo |-> 0, pending |-> FALSE]
    /\ polls = 0
    /\ ap = [h \in ApIds |-> ApReset]
    /\ log = <<>>
    /\ mmio = <<>>
    /\ sent = <<>>
    /\ rsdtRead = FALSE
    /\ madtTop = 0
    /\ published = <<>>
    /\ acked = {}
    /\ svc = [name |-> "none", vaddr |-> 0, wmark |-> 0]
    /\ calls = 0

Range(q) == { q[k] : k \in 1 .. Len(q) }

\* sequences over S of length at most n
RECURSIVE SeqsUpTo(_, _)
SeqsUpTo(S, n) ==
    IF n = 0 THEN {<<>>}
    ELSE LET shorter == SeqsUpTo(S, n - 1)
         IN  shorter \cup
             UNION { { Append(q, x) : x \in S } :
                     q \in { r \in shorter : Len(r) = n - 1 } }

(***************************************************************************)
(* Spec: smp_initialize from boot to its return, the APs it starts, and    *)
(* the IPI services afterwards.                                            *)
(***************************************************************************)
\* a MADT listing the LAPIC ids `ids` as enabled processors, between an
\* I/O APIC entry and a disabled processor
Listed(ids) ==
    <<OtherEntry(1, 12)>>
    \o [k \in 1 .. Len(ids) |-> LapicEntry(ids[k], 1)]
    \o <<LapicEntry(127, 0)>>

\* 0, 1, .., n-1 and, the APs in descending order, 0, n-1, .., 1
Ascending(n) == [k \in 1 .. n |-> k - 1]
Descending(n) == [k \in 1 .. n |-> IF k = 1 THEN 0 ELSE n + 1 - k]

\* the orders in which the firmware lists the LAPIC ids; the BSP (id 0) is
\* the first entry except in the last two
IdLists ==
    { Ascending(n) : n \in 0 .. MaxCores }
    \cup { Descending(n) : n \in 0 .. MaxCores }
    \cup { <<1, 0>>, <<1>> }

SpecRsdts ==
    { Rsdt(<<Facp>>), Rsdt(<<Madt(0, Listed(<<0, 1>>))>>) }
    \cup { Rsdt(<<Facp, Madt(LapicPhys, Listed(ids))>>) : ids \in IdLists }

SpecMems ==
    { {}, {Rsdp(LegacyScan + 32, 0)}, {Rsdp(LegacyScan + 32, 66)},
      {Rsdp(TagAddr + TagHeader, 0)} }

SpecBoots == { LegacyBoot, Boot(TRUE, TagAddr, 0, 0) }

Init ==
    \E a \in SUBSET {"nosmp", "noacpichecksum"}, b \in SpecBoots,
       m \in SpecMems, r \in SpecRsdts, t \in {MmapPage} :
        InitState(a, <<>>, b, m, r, t)

Discovery ==
    \/ SelectScanBase
    \/ LocateRsdp
    \/ BspProcessorInfo
    \/ RsdpGate
    \/ ChecksumGate
    \/ NosmpGate
    \/ ReadRsdt
    \/ RsdtNext
    \/ MadtEntry
    \/ SetProcessorCount

BringUp ==
    \/ MapLapic
    \/ CheckCores
    \/ BackupTrampoline
    \/ InstallTrampoline
    \/ LoopTest
    \/ ClearFlag
    \/ PatchGdt
    \/ AllocStack
    \/ PublishCurrent
    \/ SendInit
    \/ ShortDelay
    \/ SendSipi
    \/ WaitAck
    \/ RestoreTrampoline
    \/ FreeScratch
    \/ LogEnabled

Gateway ==
    \/ LapicWriteHi
    \/ LapicWriteLo
    \/ LapicPoll
    \/ LapicDeliver

ApNext(h) ==
    \/ ApTrampoline(h)
    \/ ApPremain(h)
    \/ ApSetCoreBase(h)
    \/ ApCheckLapicId(h)
    \/ ApArchInit(h)
    \/ ApSpurious(h)
    \/ ApSetPml(h)
    \/ ApSpawnKidle(h)
    \/ ApSetCurrentProcess(h)
    \/ ApProcessorInfo(h)
    \/ ApSetFlag(h)
    \/ ApSwitchNext(h)

Services ==
    \/ arch_wakeup_others
    \/ arch_tick_others
    \/ arch_tlb_shootdown

Next ==
    \/ Discovery
    \/ BringUp
    \/ Gateway
    \/ \E h \in ApIds : ApNext(h)
    \/ Services

Spec == Init /\ [][Next]_vars

(***************************************************************************)
(* SpecLive: the same steps with the progress each agent makes.  The BSP   *)
(* keeps executing smp_initialize and lapic_send_ipi, the LAPIC delivers a *)
(* pending command (so every poll of the delivery status eventually reads  *)
(* clear), and every started core keeps executing its trampoline and       *)
(* ap_main.  The IPI services are calls made by the rest of the kernel and *)
(* carry no obligation.                                                    *)
(***************************************************************************)
BspNext == Discovery \/ BringUp \/ LapicWriteHi \/ LapicWriteLo \/ LapicPoll

Fairness ==
    /\ WF_vars(BspNext)
    /\ WF_vars(LapicDeliver)
    /\ \A h \in ApIds : WF_vars(ApNext(h))

SpecLive == Init /\ [][Next]_vars /\ Fairness

(***************************************************************************)
(* SpecMadt: the table walk of lines 271-301 over enumerated MADTs, short  *)
(* ones with every mix of entries and long ones around the capacity.       *)
(***************************************************************************)
MadtAlphabet ==
    { LapicEntry(5, 1), LapicEntry(9, 3), LapicEntry(6, 0), LapicEntry(7, 2),
      OtherEntry(1, 12) }

ShortTables == SeqsUpTo(MadtAlphabet, MaxEntries)

\* n enabled processors with APIC ids 1 .. n; an interrupt source override
\* and a disabled processor precede every eighth of them
LongTable(n) ==
    Flatten([k \in 1 .. n |->
               IF k % 8 = 0
               THEN <<OtherEntry(2, 10), LapicEntry(100 + k \div 8, 0),
                      LapicEntry(k, 1)>>
               ELSE <<LapicEntry(k, 1)>>])

LongTables == { LongTable(n) : n \in (MAX_CPUS - 1) .. (MAX_CPUS + MaxExtra) }

MadtRsdts ==
    { Rsdt(<<Facp, Madt(LapicPhys, e)>>) : e \in ShortTables \cup LongTables }

InitMadt ==
    \E r \in MadtRsdts :
        InitState({}, <<>>, LegacyBoot, {Rsdp(LegacyScan + 32, 0)}, r, MmapPage)

NextMadt == Discovery

SpecMadt == InitMadt /\ [][NextMadt]_vars

(***************************************************************************)
(* SpecWalk: the same table walk over MADTs whose entry bytes are whatever *)
(* the firmware left there: entries of length 0, entries longer than the   *)
(* table, a table that ends inside an entry, with the memory that follows  *)
(* the table.  The BSP runs alone and keeps executing.                     *)
(***************************************************************************)
MaxRawEntries == 2

\* entry byte strings as they may lie at madt->entries (line 281)
RawEntries ==
    { <<0, 8, 1, 1, 1, 0, 0, 0>>,      \* an enabled local APIC, id 1
      <<0, 0, 2, 2, 1, 0, 0, 0>>,      \* an enabled local APIC whose length byte is 0
      <<1, 0>>,                        \* another type whose length byte is 0
      <<1, 9>>,                        \* another type whose length runs past the end
      <<2, 2>>,                        \* a two-byte entry of another type
      <<0>> }                          \* a type byte alone

RawTables ==
    { Flatten(q) : q \in UNION { [1 .. n -> RawEntries] : n \in 0 .. MaxRawEntries } }

\* what memory holds right behind the table: a read there yields any of these
Trailing == { <<0, 0, 0, 0>>, <<1, 1, 1, 1>>, <<2, 2, 2, 2>> }

\* a MADT whose header.length covers the given bytes, and the memory behind it
RawMadt(bytes, after) ==
    [sig |-> ApicSig, lapic_addr |-> LapicPhys,
     length |-> MadtEntries + Len(bytes), bytes |-> bytes \o after, ents |-> <<>>]

WalkRsdts ==
    { Rsdt(<<Facp, RawMadt(b, a)>>) : b \in RawTables, a \in Trailing }

InitWalk ==
    \E r \in WalkRsdts :
        InitState({}, <<>>, LegacyBoot, {Rsdp(LegacyScan + 32, 0)}, r, MmapPage)

SpecWalk == InitWalk /\ [][NextMadt]_vars /\ WF_vars(NextMadt)

(***************************************************************************)
(* SpecScan: the scan of lines 212-265 over memories holding up to         *)
(* MaxRsdps candidates, for every boot handoff.                            *)
(***************************************************************************)
OtherBase == TagAddr + TagHeader

\* "0x9008"
AcpiText == <<48, 120, 57, 48, 48, 56>>

ScanBoots ==
    { [b |-> LegacyBoot, acpi |-> FALSE],
      [b |-> Boot(TRUE, TagAddr, 0, 0), acpi |-> FALSE],
      [b |-> Boot(TRUE, 0, TagAddr, 0), acpi |-> FALSE],
      [b |-> Boot(FALSE, 0, 0, OtherBase), acpi |-> FALSE],
      [b |-> LegacyBoot, acpi |-> TRUE],
      [b |-> Boot(TRUE, 0, 0, 0), acpi |-> FALSE],
      [b |-> Boot(TRUE, 0, 0, 0), acpi |-> TRUE],
      [b |-> Boot(TRUE, TagAddr + 64, TagAddr, 0), acpi |-> TRUE],
      [b |-> Boot(FALSE, 0, 0, OtherBase + 64), acpi |-> TRUE] }

\* addresses on and off the 16-byte steps of the two scan ranges, inside
\* and outside them
CandidateAddrs ==
    { LegacyScan + 16, LegacyScan + 40, LegacyScan + 64, OtherBase + 32,
      LegacyScanTop + 8 }

CandidateSet ==
    UNION { { Rsdp(a, 0), Rsdp(a, 66), NearRsdp(a, 0) } : a \in CandidateAddrs }

ScanMems ==
    { m \in SUBSET CandidateSet :
        /\ Cardinality(m) <= MaxRsdps
        /\ \A p \in m, q \in m : p # q => p.addr # q.addr }

InitScan ==
    \E sb \in ScanBoots, a \in SUBSET {"noacpichecksum"}, m \in ScanMems :
        InitState(a \cup (IF sb.acpi THEN {"acpi"} ELSE {}),
                  IF sb.acpi THEN AcpiText ELSE <<>>,
                  sb.b, m, Rsdt(<<Facp>>), MmapPage)

NextScan ==
    \/ SelectScanBase
    \/ LocateRsdp
    \/ BspProcessorInfo
    \/ RsdpGate
    \/ ChecksumGate

SpecScan == InitScan /\ [][NextScan]_vars

(***************************************************************************)
(* Properties.                                                             *)
(***************************************************************************)
\* the AP started by the SIPI of pass k has executed line 137
Signalled(k) ==
    \E h \in ApIds : ap[h].idx = k /\ ap[h].pc \in {"switch", "sched"}

\* the core is between its SIPI and its write of _ap_startup_flag
InWindow(h) == ap[h].pc \notin {"wfs", "switch", "sched", "crashed"}

\* the BSP is inside the loop of lines 317-337, or past it
InLoop ==
    \/ pc \in {"loop", "clear", "gdt", "stack", "current", "init", "delay",
               "sipi", "wait"}
    \/ pc = "ipi" /\ ipiArg.ret # "ret"
PastLoop == pc \in {"restore", "free", "enabled"}

NoRsdpLine == Line("smp: No RSD PTR found", 0)
BadChecksumLine ==
    Line("smp: Bad checksum on RSDP (add 'noacpichecksum' to ignore this)", 0)
TooManyLine == Line("smp: too many cores", 0)

\* C1: at most one AP is in the bring-up window at any time: while the BSP
\* works on pass i of the loop (clearing the flag, publishing, sending INIT
\* and SIPI) every AP of an earlier pass has already set _ap_startup_flag,
\* and no two cores are between their SIPI and their flag write.
C1_OneApInWindow ==
    /\ Cardinality({ h \in ApIds : InWindow(h) }) <= 1
    /\ (InLoop \/ PastLoop) => \A k \in 1 .. (i - 1) : Signalled(k)
    /\ \A n \in 1 .. Len(published) :
          \A k \in 1 .. (published[n].idx - 1) : Signalled(k)

C1_Witness ==
    /\ pc = "clear"
    /\ i = 2
    /\ Signalled(1)
    /\ \A h \in ApIds : ~InWindow(h)

\* C2: when the SIPI of pass i is issued the flag is already cleared, the
\* trampoline holds the bootstrap code with the GDT pointer of AP i,
\* _ap_stack_base is the top of a stack allocated in this pass and
\* _ap_current is i; the AP started by that SIPI loads exactly this GDT
\* pointer and stack and takes descriptor i, never the values of another
\* pass.
C2_PublishedBeforeSipi ==
    /\ \A n \in 1 .. Len(published) :
          /\ published[n].flag = 0
          /\ published[n].code = "bootstrap"
          /\ published[n].gdtp = gdt_copy_to_trampoline(published[n].idx)
          /\ published[n].current = published[n].idx
          /\ published[n].stack # 0
          /\ \A l \in 1 .. (n - 1) : published[l].stack # published[n].stack
    /\ \A h \in ApIds :
          /\ ap[h].pc \notin {"wfs", "tramp", "crashed"} =>
                ap[h].gdt = gdt_copy_to_trampoline(ap[h].idx)
          /\ ap[h].pc \notin {"wfs", "tramp", "premain", "crashed"} =>
                \E n \in 1 .. Len(published) :
                    /\ published[n].idx = ap[h].idx
                    /\ published[n].stack = ap[h].rsp
          /\ ap[h].pc \notin {"wfs", "tramp", "premain", "main", "crashed"} =>
                ap[h].base = ap[h].idx

C2_Witness ==
    \E h \in ApIds :
        /\ ap[h].pc = "check"
        /\ ap[h].idx = 2
        /\ ap[h].base = 2
        /\ ap[h].rsp = _ap_stack_base
        /\ Len(published) = 2

\* the per-core setup of lines 111-134 is complete for descriptor k on core h
SetupDone(h, k) ==
    LET d == PldAt(processor_local_data, k)
    IN  /\ ap[h].base = k
        /\ ap[h].arch
        /\ ap[h].svr = SvrEnable
        /\ d.current_pml = InitPageRegion
        /\ d.kernel_idle_task # 0
        /\ d.current_process = d.kernel_idle_task
        /\ d.cpu_manufacturer # ""
        /\ d.cpu_model_name # ""

\* C3: an AP sets _ap_startup_flag only after its per-core setup: whenever
\* the flag is set, and whenever the BSP has left the pause loop for AP k,
\* that AP has its core base, IDT/FPU/PAT, 0x127 in its spurious vector
\* register, current_pml, its idle task as current_process and its
\* processor info; after the flag write it only enters the scheduler.
C3_SetupBeforeFlag ==
    /\ _ap_startup_flag # 0 =>
          \E h \in ApIds :
              /\ ap[h].idx = _ap_current
              /\ SetupDone(h, _ap_current)
              /\ ap[h].pc \in {"switch", "sched"}
    /\ \A k \in acked :
          \E h \in ApIds :
              /\ ap[h].idx = k
              /\ SetupDone(h, k)
              /\ ap[h].pc \in {"switch", "sched"}

C3_Witness ==
    /\ pc = "loop"
    /\ 1 \in acked
    /\ \E h \in ApIds : ap[h].idx = 1 /\ ap[h].pc = "switch" /\ SetupDone(h, 1)

\* C4: whenever smp_initialize has returned, the page at 0x1000 holds what
\* it held before and no scratch frame is still allocated; the page stops
\* holding the bootstrap code only after every AP 1 .. cores-1 has
\* acknowledged.
C4_TrampolineRoundTrip ==
    /\ pc = "ret" \/ (pc = "ipi" /\ ipiArg.ret = "ret") =>
          /\ tramp = trampOrig
          /\ framesUsed = {}
    /\ published # <<>> /\ tramp.code # "bootstrap" =>
          acked = 1 .. (cores - 1)
    /\ \A h \in ApIds : ap[h].pc = "tramp" => tramp.code = "bootstrap"

C4_Witness ==
    /\ pc = "ret"
    /\ cores = 3
    /\ acked = {1, 2}
    /\ tramp = trampOrig
    /\ trampOrig = MmapPage
    /\ framesUsed = {}

\* the processors the firmware lists as enabled, in MADT order
IsEnabledLapic(e) == e.type = 0 /\ e.flags % 2 = 1
ListedEnabled ==
    LET madts == SelectSeq(rsdt.pointers, IsMadt)
    IN  IF madts = <<>> THEN <<>> ELSE SelectSeq(madts[1].ents, IsEnabledLapic)

\* C5: once the MADT walk is over, cores is min(K, MAX_CPUS) for the K
\* enabled type-0 entries of the table; descriptor j has cpu_id j and the
\* APIC id of the j-th enabled entry, in MADT order; disabled entries and
\* entries of other types leave no descriptor; "smp: too many cores" is
\* printed exactly when K > MAX_CPUS.
C5_MadtParse ==
    pc \in {"count", "lapic"} =>
        LET en == ListedEnabled
            K == Len(en)
            n == IF K < MAX_CPUS THEN K ELSE MAX_CPUS
        IN  /\ cores = n
            /\ \A j \in 0 .. (n - 1) :
                  /\ PldAt(processor_local_data, j).cpu_id = j
                  /\ PldAt(processor_local_data, j).lapic_id = en[j + 1].id
            /\ \A j \in DOMAIN processor_local_data : j = 0 \/ j < n
            /\ n = 0 => /\ processor_local_data[0].cpu_id = 0
                        /\ processor_local_data[0].lapic_id = 0
            /\ (K > MAX_CPUS) <=> (log = <<TooManyLine>>)
            /\ (K <= MAX_CPUS) <=> (log = <<>>)

C5_Witness ==
    /\ pc = "lapic"
    /\ Len(ListedEnabled) = MAX_CPUS + 1
    /\ cores = MAX_CPUS
    /\ processor_count = MAX_CPUS
    /\ processor_local_data[MAX_CPUS - 1].lapic_id = MAX_CPUS
    /\ log = <<TooManyLine>>

\* C6: with nosmp on the command line processor_count stays 1 and
\* lapic_final stays 0, no IPI is sent, no LAPIC register is written, the
\* trampoline page and every lapic_id field are left alone and the RSDT is
\* not read, whatever the boot source, the RSDP and the tables are.
C6_NosmpSingleCpu ==
    "nosmp" \in args =>
        /\ processor_count = 1
        /\ lapic_final = 0
        /\ sent = <<>>
        /\ mmio = <<>>
        /\ published = <<>>
        /\ tramp = trampOrig
        /\ framesUsed = {}
        /\ ~rsdtRead
        /\ \A k \in DOMAIN processor_local_data :
              processor_local_data[k].lapic_id = 0
        /\ \A h \in ApIds : ap[h].pc = "wfs"
        /\ pc \in {"select", "scan", "info", "found", "checksum", "nosmp", "ret"}

C6_Witness ==
    /\ "nosmp" \in args
    /\ pc = "ret"
    /\ good = 1
    /\ log = <<>>
    /\ Len(ListedEnabled) = 3
    /\ calls = 1

\* the 8-bit sum of the bytes of the descriptor the scan stopped at
DescriptorSum ==
    LET p == CHOOSE q \in mem : q.addr = scan IN SumBytes(p.bytes) % 256

\* the checksum gate of lines 256-265 has been passed or has rejected
GateDecided == good = 1 /\ pc \notin {"select", "scan", "info", "found", "checksum"}

\* C7: with nosmp present smp_initialize prints nothing, whatever the
\* firmware tables contain (a missing RSDP and a bad checksum included).
C7_NosmpSilent == "nosmp" \in args => log = <<>>

\* C8 as stated: a nonzero sum without noacpichecksum logs "Bad checksum"
\* and returns without reading the RSDT, processor_count and lapic_final
\* unchanged; a zero sum, or noacpichecksum, proceeds to RSDT/MADT parsing.
C8_ChecksumGate ==
    GateDecided =>
        IF DescriptorSum # 0 /\ "noacpichecksum" \notin args
        THEN /\ pc = "ret" \/ (pc = "ipi" /\ ipiArg.ret = "ret")
             /\ log = <<BadChecksumLine>>
             /\ ~rsdtRead
             /\ processor_count = ProcessorCountInit
             /\ lapic_final = 0
        ELSE pc \notin {"nosmp", "rsdt"} => rsdtRead

\* C8 as amended: a nonzero sum without noacpichecksum logs "Bad checksum"
\* and returns without reading the RSDT, processor_count and lapic_final
\* unchanged; a zero sum, or noacpichecksum, passes the gate, after which
\* the RSDT is read exactly when nosmp is absent.
C8_ChecksumGateUnlessNosmp ==
    GateDecided =>
        IF DescriptorSum # 0 /\ "noacpichecksum" \notin args
        THEN /\ pc = "ret" \/ (pc = "ipi" /\ ipiArg.ret = "ret")
             /\ log = <<BadChecksumLine>>
             /\ ~rsdtRead
             /\ processor_count = ProcessorCountInit
             /\ lapic_final = 0
        ELSE /\ BadChecksumLine \notin Range(log)
             /\ pc \notin {"nosmp", "rsdt"} => (rsdtRead <=> "nosmp" \notin args)

C8_Witness ==
    /\ GateDecided
    /\ DescriptorSum # 0
    /\ "noacpichecksum" \in args
    /\ "nosmp" \notin args
    /\ pc = "tables"
    /\ rsdtRead

\* the range the scan covers, and the candidates on its 16-byte steps
RangeBase == IF scan_top = LegacyScanTop THEN LegacyScan ELSE scan_top - ScanSpan
OnStride(p) ==
    /\ p.addr >= RangeBase
    /\ p.addr < scan_top
    /\ (p.addr - RangeBase) % 16 = 0
IsValidRsdp(p) ==
    /\ SubSeq(p.bytes, 1, 8) = RsdpSig
    /\ SumBytes(p.bytes) % 256 = 0
Scanned == pc \notin {"select", "scan"}

\* C9: the locator returns the offset of the (first) descriptor that
\* carries the 8-byte signature on a 16-byte step with a zero checksum, also
\* when other candidate hits precede it; when no signature lies on a
\* 16-byte step nothing is found and "No RSD PTR found" is the result.
C9_LocatorReturnsValid ==
    Scanned =>
        /\ \A p \in mem :
              ( /\ OnStride(p)
                /\ IsValidRsdp(p)
                /\ \A q \in mem : OnStride(q) /\ IsValidRsdp(q) => q.addr >= p.addr )
              => good = 1 /\ scan = p.addr
        /\ (\A p \in mem : ~OnStride(p)) =>
              /\ good = 0
              /\ pc = "ret" => log = <<NoRsdpLine>>

\* the conditions under which the services must stay quiet, and the two
\* writes of a broadcast with vector v
Quiet == lapic_final = 0 \/ processor_count < 2
ServiceVector(name) ==
    IF name = "wakeup" THEN 126 ELSE IF name = "tick" THEN 123 ELSE 124
Broadcast(v) ==
    <<[addr |-> 784, value |-> 0], [addr |-> 768, value |-> v + 3 * 262144]>>

\* C10: a service called with lapic_final = 0 or processor_count < 2 never
\* enters lapic_send_ipi and writes no LAPIC register; otherwise it writes
\* ICR-high 0 and then ICR-low vector | 3<<18 (vector 0x7E for wakeup, 0x7B
\* for tick, 0x7C for the TLB shootdown, whatever vaddr is) and nothing
\* else.
C10_IpiServices ==
    svc.name # "none" =>
        LET w == SubSeq(mmio, svc.wmark + 1, Len(mmio))
            e == Broadcast(ServiceVector(svc.name))
        IN  IF Quiet
            THEN /\ pc = "ret"
                 /\ ipc = "none"
                 /\ w = <<>>
            ELSE /\ pc \in {"ret", "ipi"}
                 /\ pc = "ret" => w = e /\ ipc = "none"
                 /\ pc = "ipi" =>
                       /\ Len(w) <= 2
                       /\ \A k \in 1 .. Len(w) : w[k] = e[k]
                       /\ ipiArg.ret = "ret"

C10_Witness ==
    /\ pc = "ret"
    /\ svc.name = "tlb"
    /\ svc.vaddr = 233492480
    /\ ~Quiet
    /\ Len(mmio) = svc.wmark + 2
    /\ mmio[Len(mmio)] = [addr |-> 768, value |-> 786556]

\* the IPIs the LAPIC has delivered
Delivered == { k \in 1 .. Len(sent) : sent[k].op = "ipi" }

\* C11: every call of lapic_send_ipi(id, cmd) writes id << 24 to offset
\* 0x310 and then cmd to offset 0x300, and nothing else: the register
\* writes alternate 0x310, 0x300, two per call, and the call in progress
\* accounts for the last ones; the call returns only when the command it
\* wrote has left the delivery-status bit clear, and it has then been
\* delivered once (no second write of the command).
C11_SendIpiOrder ==
    LET n == Len(mmio)
        hi == [addr |-> 784, value |-> ipiArg.i * 16777216]
        lo == [addr |-> 768, value |-> ipiArg.val]
    IN  /\ \A k \in 1 .. n : mmio[k].addr = IF k % 2 = 1 THEN 784 ELSE 768
        /\ ipc = "w310" => n % 2 = 0
        /\ ipc = "w300" => n % 2 = 1 /\ mmio[n] = hi
        /\ ipc = "poll" => n % 2 = 0 /\ n >= 2 /\ mmio[n - 1] = hi /\ mmio[n] = lo
        /\ ipc = "none" =>
              /\ n % 2 = 0
              /\ n >= 2 => mmio[n - 1] = hi /\ mmio[n] = lo
              /\ ~icr.pending
              /\ n = 2 * Cardinality(Delivered)
        /\ ipc # "none" => pc \in {"ipi", "reset"}

C11_Witness ==
    /\ pc = "delay"
    /\ ipc = "none"
    /\ mmio = <<[addr |-> 784, value |-> 2 * 16777216],
                [addr |-> 768, value |-> 17664]>>
    /\ sent = <<[op |-> "ipi", hi |-> 2 * 16777216, lo |-> 17664]>>

\* smp_initialize has returned (an IPI service may be running)
Returned == pc = "ret" \/ (pc = "ipi" /\ ipiArg.ret = "ret")

\* the descriptors that have been written, the BSP's included
Populated == Cardinality(DOMAIN processor_local_data)

\* C12: once smp_initialize has returned, along any path and for any
\* tables, 1 <= processor_count <= MAX_CPUS, processor_count is the number
\* of populated descriptors counting the BSP's, and lapic_final is 0 or the
\* mapping of the LAPIC page.
C12_CountInvariant ==
    Returned =>
        /\ 1 <= processor_count
        /\ processor_count <= MAX_CPUS
        /\ processor_count = Populated
        /\ lapic_final = 0 \/ lapic_final = MmioWindow + lapic_base \div 4096

\* C13: when the MADT walk has ended with lapic_base = 0, smp_initialize
\* returns having logged nothing, started no AP and left lapic_final 0, and
\* processor_count describes one CPU whatever the tables listed.
C13_NoLapicBase ==
    Returned /\ rsdtRead /\ lapic_base = 0 =>
        /\ log = <<>>
        /\ sent = <<>>
        /\ \A h \in ApIds : ap[h].pc = "wfs"
        /\ lapic_final = 0
        /\ processor_count = 1

\* what the LAPIC delivers and the BSP waits for in pass k of the loop
PassSends(k) ==
    LET hi == PldAt(processor_local_data, k).lapic_id * 16777216
    IN  <<[op |-> "ipi", hi |-> hi, lo |-> 17664],
          [op |-> "delay", hi |-> 0, lo |-> 5000],
          [op |-> "ipi", hi |-> hi, lo |-> 17921]>>

RECURSIVE SendsUpTo(_)
SendsUpTo(n) == IF n = 0 THEN <<>> ELSE SendsUpTo(n - 1) \o PassSends(n)

\* the sends that are not broadcasts of the IPI services
IsBroadcast(r) == r.op = "ipi" /\ r.lo >= 262144
BringUpSends == SelectSeq(sent, LAMBDA r : ~IsBroadcast(r))

EnabledLine == Line("smp: enabled with %d cores", cores)

\* the loop has run to its end
LoopDone == PastLoop \/ (Returned /\ rsdtRead /\ lapic_base # 0 /\ cores >= 2)

\* C14: the sends of the bring-up are, for i = 1, 2, .. in ascending order,
\* INIT (0x4500) to processor_local_data[i].lapic_id, the delay of 5000, then
\* SIPI (0x4601) to the same id; once the loop is over there are exactly
\* cores-1 such triples, no two to the same core, and "smp: enabled with N
\* cores" is logged only after every AP has acknowledged; with cores <= 1
\* nothing is sent and lapic_final is mapped.
C14_InitSipiPairs ==
    /\ rsdtRead /\ pc \notin {"tables", "walk", "count"} =>
          LET all == SendsUpTo(IF cores = 0 THEN 0 ELSE cores - 1)
              b == BringUpSends
          IN  /\ Len(b) <= Len(all)
              /\ \A k \in 1 .. Len(b) : b[k] = all[k]
              /\ LoopDone => b = all
              /\ InLoop /\ pc \in {"loop", "clear", "gdt", "stack", "current"} =>
                    Len(b) = 3 * (i - 1)
              /\ \A j \in 1 .. Len(b), k \in 1 .. Len(b) :
                    j # k /\ b[j].op = "ipi" /\ b[j] = b[k] => FALSE
              /\ \A j \in 1 .. Len(b), k \in 1 .. Len(b) :
                    j + 2 < k /\ b[j].op = "ipi" /\ b[k].op = "ipi" =>
                        b[j].hi # b[k].hi
    /\ EnabledLine \in Range(log) =>
          /\ log = <<EnabledLine>>
          /\ Returned
          /\ cores >= 2
          /\ acked = 1 .. (cores - 1)
          /\ \A k \in 1 .. (cores - 1) : Signalled(k)
    /\ Returned /\ LoopDone => log = <<EnabledLine>>
    /\ Returned /\ rsdtRead /\ lapic_base # 0 /\ cores <= 1 =>
          /\ sent = <<>>
          /\ mmio = <<>>
          /\ lapic_final = MmioWindow + lapic_base \div 4096
          /\ lapic_final # 0

C14_Witness ==
    /\ pc = "ret"
    /\ cores = 3
    /\ log = <<EnabledLine>>
    /\ sent = SendsUpTo(2)
    /\ PldAt(processor_local_data, 1).lapic_id = 2
    /\ PldAt(processor_local_data, 2).lapic_id = 1

\* a step leaves the two fields of descriptor k that discovery writes alone
IdsKept(k) ==
    /\ PldAt(processor_local_data', k).cpu_id = PldAt(processor_local_data, k).cpu_id
    /\ PldAt(processor_local_data', k).lapic_id = PldAt(processor_local_data, k).lapic_id

\* a step changes at most the two fields of descriptor k that discovery writes
OnlyIds(k) ==
    [PldAt(processor_local_data', k) EXCEPT
       !.cpu_id = PldAt(processor_local_data, k).cpu_id,
       !.lapic_id = PldAt(processor_local_data, k).lapic_id]
    = PldAt(processor_local_data, k)

DescriptorStep ==
    \A k \in 0 .. (MAX_CPUS - 1) :
        PldAt(processor_local_data', k) # PldAt(processor_local_data, k) =>
            \/ ap' = ap /\ pc = "walk" /\ OnlyIds(k)
            \/ ap' = ap /\ pc = "info" /\ k = 0 /\ IdsKept(k)
            \/ \E h \in ApIds :
                  /\ ap'[h] # ap[h]
                  /\ ap[h].idx = k
                  /\ k >= 1
                  /\ IdsKept(k)

\* C15: cpu_id and lapic_id of a descriptor change only in a step of the
\* BSP's MADT walk; every other change of descriptor k >= 1 is made by a
\* step of the AP that was started for index k and leaves cpu_id and
\* lapic_id alone (descriptor 0 changes otherwise only in the BSP's own
\* load_processor_info), in every interleaving of the APs and the BSP.
C15_DescriptorOwnership == [][DescriptorStep]_vars

C15_Witness ==
    \E h1 \in ApIds, h2 \in ApIds :
        /\ h1 # h2
        /\ ap[h1].idx = 1 /\ ap[h1].pc = "sched"
        /\ ap[h2].idx = 2 /\ ap[h2].pc = "flag"
        /\ PldAt(processor_local_data, 1).lapic_id = h1
        /\ PldAt(processor_local_data, 2).lapic_id = h2
        /\ PldAt(processor_local_data, 1).kernel_idle_task = 1
        /\ PldAt(processor_local_data, 2).kernel_idle_task = 2
        /\ PldAt(processor_local_data, 2).current_process = 2
        /\ PldAt(processor_local_data, 2).cpu_model_name # ""
        /\ PldAt(processor_local_data, 1).cpu_manufacturer
              # PldAt(processor_local_data, 2).cpu_manufacturer

\* the BSP is past line 301, and past line 306
PastCount ==
    pc \notin {"select", "scan", "info", "found", "checksum", "nosmp", "rsdt",
               "tables", "walk", "count"}
PastMap == PastCount /\ pc # "lapic"

GlobalsStep ==
    /\ processor_count' # processor_count =>
          /\ pc = "count" /\ pc' = "lapic"
          /\ ap' = ap
          /\ sent = <<>> /\ mmio = <<>>
    /\ lapic_final' # lapic_final =>
          /\ pc = "lapic" /\ pc' = "cores"
          /\ ap' = ap
          /\ lapic_final = 0
          /\ sent = <<>> /\ mmio = <<>>
    /\ PastCount => PastCount' /\ processor_count' = processor_count
    /\ PastMap => PastMap' /\ lapic_final' = lapic_final

\* C16: processor_count changes only in the BSP's step at line 301 and
\* lapic_final only in its step at line 306, each before any LAPIC write
\* and any IPI; once the BSP is past the line the value never changes
\* again, whatever the APs and the IPI services do.
C16_WrittenOnce == [][GlobalsStep]_vars

C16_Witness ==
    /\ pc = "ret"
    /\ calls = 1
    /\ svc.name = "tick"
    /\ processor_count = 3
    /\ lapic_final = MmioWindow + LapicPhys \div 4096
    /\ acked = {1, 2}
    /\ \A k \in acked : Signalled(k)
    /\ Len(mmio) = 10

\* the scan base the ordered list of sources gives: the boot handoff when
\* it carries a pointer, else acpi=<hex>, else the legacy range
HandoffBase ==
    IF boot.mboot_is_2
    THEN IF boot.tag14 # 0 THEN boot.tag14 + 8
         ELSE IF boot.tag15 # 0 THEN boot.tag15 + 8 ELSE 0
    ELSE boot.config_table
SourceBase ==
    IF HandoffBase # 0 THEN HandoffBase
    ELSE IF "acpi" \in args THEN 36872
    ELSE 917504

\* C17: the scan starts at the base of the first source that matches (a
\* multiboot2 handoff with neither tag 14 nor tag 15 and a zero
\* config_table fall through to acpi=<hex>, then to the legacy range
\* [0xE0000, 0x100000)) and covers base .. base + 0x100000 for the sources
\* other than the legacy range.
C17_ScanBaseOrder ==
    pc = "scan" =>
        /\ scan = SourceBase
        /\ scan_top = IF HandoffBase = 0 /\ "acpi" \notin args
                      THEN 1048576 ELSE SourceBase + 1048576

\* C19: no INIT or SIPI is addressed to the LAPIC id of the core that runs
\* smp_initialize, whatever the order of the enabled entries of the MADT
\* is: the BSP is never reset by its own INIT, every target
\* processor_local_data[i].lapic_id, i >= 1, differs from the BSP's id, and
\* descriptor 0 carries the BSP's id once the MADT has been walked.
C19_NoSelfIpi ==
    /\ pc # "reset"
    /\ \A k \in 1 .. Len(sent) :
          sent[k].op = "ipi" /\ ~IsBroadcast(sent[k]) =>
              sent[k].hi \div 16777216 # BspId
    /\ \A k \in 1 .. Len(mmio) :
          k % 2 = 0 /\ mmio[k].value \in {17664, 17921} =>
              mmio[k - 1].value \div 16777216 # BspId
    /\ PastCount /\ rsdtRead /\ (\E k \in 1 .. Len(ListedEnabled) :
                                     ListedEnabled[k].id = BspId) =>
          /\ PldAt(processor_local_data, 0).lapic_id = BspId
          /\ \A j \in 1 .. (cores - 1) :
                PldAt(processor_local_data, j).lapic_id # BspId

\* every AP 1 .. cores-1 of a bring-up has entered the scheduler
AllScheduled ==
    rsdtRead /\ lapic_base # 0 /\ cores >= 2 =>
        \A k \in 1 .. (cores - 1) :
            \E h \in ApIds : ap[h].idx = k /\ ap[h].pc = "sched"

\* while AP i has not acknowledged, the BSP stays in the pause loop of pass
\* i: no INIT for a later pass has been sent and the trampoline page still
\* holds the bootstrap code
SpinsWhileSilent ==
    pc = "wait" /\ _ap_startup_flag = 0 =>
        /\ Len(BringUpSends) = 3 * i
        /\ tramp.code = "bootstrap"
        /\ ~(ENABLED WaitAck)

\* C18: with the LAPIC delivering every command and every started AP
\* running on, smp_initialize eventually returns and every AP 1 .. cores-1
\* has then entered the scheduler; and as long as AP i has not acknowledged
\* the BSP stays in its pause loop, having sent no INIT to a later AP and
\* not restored the trampoline page.
C18_BringUpTerminates ==
    /\ <>(Returned /\ AllScheduled)
    /\ []SpinsWhileSilent


(***************************************************************************)
(* C20: the walk over the MADT entries terminates for every table content, *)
(* also for an entry whose length byte is 0 or whose length runs past the  *)
(* table end: smp_initialize reaches the assignment of processor_count,    *)
(* and the walk reads no byte at or beyond table + header.length.          *)
(***************************************************************************)
WalkInBounds ==
    \A k \in 1 .. Len(rsdt.pointers) :
        IsMadt(rsdt.pointers[k]) => madtTop < rsdt.pointers[k].length

C20_WalkTerminates == <>PastCount /\ []WalkInBounds

=============================================================================
